---- MODULE Spec2Model ----
(***************************************************************************)
(* Model of main.py of radiative-forcing: a Dash page that loads           *)
(* rf_data.csv once at import time, builds a checklist from the table's    *)
(* Source column and redraws a waterfall chart from the rows whose Source  *)
(* is in the checklist's selection (callback update_graph).                *)
(*                                                                         *)
(* A table (DataFrame) is a sequence of rows; a row is a record with the   *)
(* pandas row label (index, zero-based RangeIndex) and the three columns.  *)
(* A Series is the sequence of one column's values.  Contribution is a     *)
(* number; the chart receives the numbers themselves for both y and text.  *)
(***************************************************************************)
EXTENDS Naturals, Integers, Sequences, FiniteSets

\* ---------------------------------------------------------------- bounds
\* Largest number of data rows in rf_data.csv.
MaxRows == 2
\* Longest selection list sent by the checklist control.
MaxSel == 2

\* The Source labels that may occur in the file, and the labels a selection
\* list may hold.  "Net total" is part of the default selection, "Aerosols"
\* is not.
SourceLabels == {"Net total", "Aerosols"}
Measures == {"relative", "total"}
Contributions == {-1, 2}

BoundedSeq(S, n) == UNION {[1..k -> S] : k \in 0..n}

\* The data rows a CSV file may hold, and the files' contents.
CsvRows == [Source : SourceLabels, Measure : Measures, Contribution : Contributions]
CsvContents == BoundedSeq(CsvRows, MaxRows)

\* main.py:44, the checklist's initial value.
DefaultSelection ==
    <<"Carbon Dioxide", "Methane", "Albedo (Land use)", "Solar irradiance", "Net total">>

\* ------------------------------------------------------------- variables
VARIABLES
    rf_data_csv,        \* the input file: [state, rows]
    run_name,           \* the module's __name__: "__main__" when run as a script
    pc,                 \* position in the module's top-level code
    df,                 \* the module-level table (main.py:13)
    checklist,          \* dcc.Checklist 'my_checklist': [options, value]
    layout_defined,     \* app.layout has been assigned
    callback_registered,\* update_graph is registered with app.callback
    server_running,     \* app.run_server has been entered
    selected_sources,   \* argument of the latest update_graph invocation
    outcome,            \* "none" | "ok" | "error": how that invocation ended
    filtered_df,        \* the local filtered_df of that invocation
    the_graph,          \* figure property of dcc.Graph 'the_graph'
    earlier             \* history: one earlier invocation of update_graph

vars == <<rf_data_csv, run_name, pc, df, checklist, layout_defined, callback_registered,
          server_running, selected_sources, outcome, filtered_df, the_graph,
          earlier>>

\* ---------------------------------------------------------- pure helpers
Range(s) == {s[i] : i \in 1..Len(s)}

\* A callback argument as it arrives from the JSON request body: a list of
\* labels, or null.
JsonList(s) == [kind |-> "list", items |-> s]
JsonNull == [kind |-> "null", items |-> <<>>]

\* pd.read_csv's result for well-formed contents: the rows in file order
\* under a RangeIndex 0..n-1.
DataFrame(rows) ==
    [i \in 1..Len(rows) |->
        [index |-> i - 1, Source |-> rows[i].Source,
         Measure |-> rows[i].Measure, Contribution |-> rows[i].Contribution]]

\* d['Source'], d['Measure'], d['Contribution']: one column as a Series.
ColSource(d) == [i \in 1..Len(d) |-> d[i].Source]
ColMeasure(d) == [i \in 1..Len(d) |-> d[i].Measure]
ColContribution(d) == [i \in 1..Len(d) |-> d[i].Contribution]

\* Series.unique(): the distinct values in order of first appearance.
RECURSIVE unique(_)
unique_nodedup(series) == series
unique(series) ==
    IF series = <<>> THEN <<>>
    ELSE LET init == unique(SubSeq(series, 1, Len(series) - 1))
             last == series[Len(series)]
         IN IF last \in Range(init) THEN init ELSE Append(init, last)

\* Series.isin(values): the boolean mask, one entry per element of the
\* series, true where the element equals some element of values.
isin_first_only(series, values) ==
    [i \in 1..Len(series) |-> values # <<>> /\ values[1] = series[i]]
isin_drop_last(series, values) ==
    [i \in 1..Len(series) |-> \E j \in 1..(Len(values) - 1) : values[j] = series[i]]
isin_empty_all(series, values) ==
    [i \in 1..Len(series) |->
        values = <<>> \/ \E j \in 1..Len(values) : values[j] = series[i]]
isin(series, values) ==
    [i \in 1..Len(series) |-> \E j \in 1..Len(values) : values[j] = series[i]]

\* d[mask]: boolean indexing, the rows whose mask entry is true, in the
\* table's order, each keeping its row label.
RECURSIVE BoolIndex(_, _)
RECURSIVE BoolIndex_reversed(_, _)
BoolIndex_reversed(d, mask) ==
    IF d = <<>> THEN <<>>
    ELSE LET rest == BoolIndex_reversed(Tail(d), Tail(mask))
         IN IF Head(mask) THEN Append(rest, Head(d)) ELSE rest
BoolIndex(d, mask) ==
    IF d = <<>> THEN <<>>
    ELSE LET rest == BoolIndex(Tail(d), Tail(mask))
         IN IF Head(mask) THEN <<Head(d)>> \o rest ELSE rest

\* main.py:62, df[df['Source'].isin(selected_sources)].
RECURSIVE Filter_loc(_, _)
Filter_loc(d, values) ==
    IF values = <<>> THEN <<>>
    ELSE BoolIndex(d, isin(ColSource(d), <<Head(values)>>)) \o Filter_loc(d, Tail(values))
Filter(d, values) == BoolIndex(d, isin(ColSource(d), values))

\* main.py:64-75, go.Figure(go.Waterfall(...)): the data arrays of the trace.
\* Bar i of the chart is (measure[i], x[i], y[i], text[i]).
Waterfall_y_unfiltered(filtered) ==
    [measure |-> ColMeasure(filtered), x |-> ColSource(filtered),
     text |-> ColContribution(filtered), y |-> ColContribution(df)]
Waterfall(filtered) ==
    [measure |-> ColMeasure(filtered), x |-> ColSource(filtered),
     text |-> ColContribution(filtered), y |-> ColContribution(filtered)]

\* dcc.Graph(id='the_graph') has no figure until the callback returns one.
NoFigure == [measure |-> <<>>, x |-> <<>>, text |-> <<>>, y |-> <<>>]
NoChecklist == [options |-> <<>>, value |-> <<>>]
NoCall == [called |-> FALSE, selected_sources |-> JsonNull,
           outcome |-> "none", figure |-> NoFigure]

\* The arguments the callback may be invoked with: the checklist's initial
\* value, every option ticked, any short list of labels, or null.
CallbackArgs ==
    {JsonList(s) : s \in BoundedSeq(SourceLabels, MaxSel)
                        \cup {checklist.value, checklist.options}}
    \cup {JsonNull}

\* ----------------------------------------------------------------- Init
Init ==
    /\ rf_data_csv \in
          {[state |-> "ok", rows |-> r] : r \in CsvContents}
          \cup {[state |-> "missing", rows |-> <<>>],
                [state |-> "malformed", rows |-> <<>>]}
    /\ run_name \in {"__main__", "main"}
    /\ pc = "import"
    /\ df = <<>>
    /\ checklist = NoChecklist
    /\ layout_defined = FALSE
    /\ callback_registered = FALSE
    /\ server_running = FALSE
    /\ selected_sources = JsonNull
    /\ outcome = "none"
    /\ filtered_df = <<>>
    /\ the_graph = NoFigure
    /\ earlier = NoCall

\* -------------------------------------------------------------- actions
\* main.py:13, df = pd.read_csv("rf_data.csv").  A missing or unparsable
\* file raises at module level: nothing after line 13 runs.
read_csv_swallow ==
    /\ pc = "import"
    /\ df' = IF rf_data_csv.state = "ok" THEN DataFrame(rf_data_csv.rows) ELSE <<>>
    /\ pc' = "layout"
    /\ UNCHANGED <<rf_data_csv, run_name, checklist, layout_defined, callback_registered,
                   server_running, selected_sources, outcome, filtered_df,
                   the_graph, earlier>>
read_csv ==
    /\ pc = "import"
    /\ \/ /\ rf_data_csv.state = "ok"
          /\ df' = DataFrame(rf_data_csv.rows)
          /\ pc' = "layout"
       \/ /\ rf_data_csv.state # "ok"
          /\ df' = df
          /\ pc' = "failed"
    /\ UNCHANGED <<rf_data_csv, run_name, checklist, layout_defined, callback_registered,
                   server_running, selected_sources, outcome, filtered_df,
                   the_graph, earlier>>

\* main.py:16-55, app.layout = ...: the checklist gets one option per
\* unique Source value and the fixed initial value.
define_layout ==
    /\ pc = "layout"
    /\ checklist' = [options |-> unique(ColSource(df)), value |-> DefaultSelection]
    /\ layout_defined' = TRUE
    /\ pc' = "callback"
    /\ UNCHANGED <<rf_data_csv, run_name, df, callback_registered, server_running,
                   selected_sources, outcome, filtered_df, the_graph, earlier>>

\* main.py:57-61, the @app.callback decorator registers update_graph.
register_callback ==
    /\ pc = "callback"
    /\ callback_registered' = TRUE
    /\ pc' = "main"
    /\ UNCHANGED <<rf_data_csv, run_name, df, checklist, layout_defined, server_running,
                   selected_sources, outcome, filtered_df, the_graph, earlier>>

\* main.py:79-80, run as a script: app.run_server(debug=True, port=8124)
\* serves the page and its callback.
run_server ==
    /\ pc = "main"
    /\ run_name = "__main__"
    /\ server_running' = TRUE
    /\ pc' = "serving"
    /\ UNCHANGED <<rf_data_csv, run_name, df, checklist, layout_defined,
                   callback_registered, selected_sources, outcome, filtered_df,
                   the_graph, earlier>>

\* main.py:79, imported as a module: the guard is false, line 80 does not
\* run and the import completes.  The importer holds `server` (main.py:10)
\* and update_graph, so the callback can be invoked from here on although
\* app.run_server was never entered.
module_imported ==
    /\ pc = "main"
    /\ run_name # "__main__"
    /\ pc' = "imported"
    /\ UNCHANGED <<rf_data_csv, run_name, df, checklist, layout_defined,
                   callback_registered, server_running, selected_sources,
                   outcome, filtered_df, the_graph, earlier>>

\* What the history keeps of an invocation.
CallRecord(arg, out, fig) ==
    [called |-> TRUE, selected_sources |-> arg, outcome |-> out, figure |-> fig]

\* The latest invocation as the history records it: its argument, how it
\* ended and the figure it returned (none when it raised).
LatestCall ==
    IF outcome = "none" THEN NoCall
    ELSE CallRecord(selected_sources, outcome,
                    IF outcome = "ok" THEN the_graph ELSE NoFigure)

\* main.py:61-77, update_graph(selected_sources), invoked by the framework
\* with the checklist's value, under app.run_server or through `server`
\* once the module's top-level code has completed.  isin raises TypeError
\* on a non-list argument
\* (the framework then leaves the graph as it is); otherwise the figure
\* built from the filtered rows is returned and becomes the graph's figure.
\* The history variable keeps either the invocation it held or the one
\* that was the latest before this one.
update_graph_rebind(arg) ==
    /\ pc \in {"serving", "imported"}
    /\ earlier' \in {earlier, LatestCall}
    /\ selected_sources' = arg
    /\ IF arg.kind # "list"
       THEN /\ outcome' = "error"
            /\ filtered_df' = <<>>
            /\ UNCHANGED <<the_graph, df>>
       ELSE /\ outcome' = "ok"
            /\ filtered_df' = Filter(df, arg.items)
            /\ df' = filtered_df'
            /\ the_graph' = Waterfall(filtered_df')
    /\ UNCHANGED <<rf_data_csv, run_name, pc, checklist, layout_defined,
                   callback_registered, server_running>>
update_graph(arg) ==
    /\ pc \in {"serving", "imported"}
    /\ earlier' \in {earlier, LatestCall}
    /\ selected_sources' = arg
    /\ IF arg.kind # "list"
       THEN /\ outcome' = "error"
            /\ filtered_df' = <<>>
            /\ UNCHANGED the_graph
       ELSE /\ outcome' = "ok"
            /\ filtered_df' = Filter(df, arg.items)
            /\ the_graph' = Waterfall(filtered_df')
    /\ UNCHANGED <<rf_data_csv, run_name, pc, df, checklist, layout_defined,
                   callback_registered, server_running>>

Next ==
    \/ read_csv
    \/ define_layout
    \/ register_callback
    \/ run_server
    \/ module_imported
    \/ \E arg \in CallbackArgs : update_graph(arg)

Spec == Init /\ [][Next]_vars

\* ------------------------------------------------------------ properties
\* The labels of a selection that occur in the table.
Effective(items) == Range(items) \cap Range(ColSource(df))
\* The positions of the table's rows whose Source is one of the labels.
Matching(labels) == {k \in 1..Len(df) : df[k].Source \in labels}
\* The figure an invocation returned, as the history records it.
Returned == IF outcome = "ok" THEN the_graph ELSE NoFigure

\* C1: after update_graph with a non-empty list S, filtered_df holds exactly
\* the rows of df whose Source is in S: each filtered row is the df row of
\* its row label, the row labels are exactly those of the rows with Source
\* in S, and they are strictly increasing (no row twice, table order kept).
C1_FilterExact ==
    (outcome = "ok" /\ selected_sources.items # <<>>) =>
        /\ \A i \in 1..Len(filtered_df) :
              /\ filtered_df[i].index + 1 \in 1..Len(df)
              /\ filtered_df[i] = df[filtered_df[i].index + 1]
        /\ {filtered_df[i].index + 1 : i \in 1..Len(filtered_df)}
              = Matching(Range(selected_sources.items))
        /\ \A i, j \in 1..Len(filtered_df) :
              i < j => filtered_df[i].index < filtered_df[j].index
C1_Witness ==
    /\ outcome = "ok"
    /\ Len(selected_sources.items) = 2
    /\ Len(filtered_df) >= 1
    /\ Len(filtered_df) < Len(df)

\* C2: the returned chart has one bar per filtered row, and bar i takes its
\* kind from row i's Measure, its x from row i's Source, and both its height
\* and its text from row i's Contribution.
C2_BarsFromRows ==
    outcome = "ok" =>
        /\ Len(the_graph.measure) = Len(filtered_df)
        /\ Len(the_graph.x) = Len(filtered_df)
        /\ Len(the_graph.y) = Len(filtered_df)
        /\ Len(the_graph.text) = Len(filtered_df)
        /\ \A i \in 1..Len(filtered_df) :
              /\ the_graph.measure[i] = filtered_df[i].Measure
              /\ the_graph.x[i] = filtered_df[i].Source
              /\ the_graph.y[i] = filtered_df[i].Contribution
              /\ the_graph.text[i] = filtered_df[i].Contribution
C2_Witness ==
    /\ outcome = "ok"
    /\ Len(the_graph.x) = 2
    /\ the_graph.measure[1] # the_graph.measure[2]
    /\ the_graph.y[1] # the_graph.y[2]
    /\ the_graph.x[1] # the_graph.x[2]

\* C3: update_graph with the empty list returns normally and the chart it
\* returns has no bars.
C3_EmptySelection ==
    (outcome # "none" /\ selected_sources = JsonList(<<>>)) =>
        /\ outcome = "ok"
        /\ the_graph = NoFigure
C3_Witness ==
    /\ outcome = "ok"
    /\ selected_sources = JsonList(<<>>)
    /\ Len(df) >= 1
    /\ earlier.called /\ Len(earlier.figure.x) >= 1

\* C4: update_graph with the list of all unique Source values (the
\* checklist's options) returns a chart with one bar per row of df, in the
\* table's order.
C4_SelectAll ==
    (outcome = "ok" /\ selected_sources = JsonList(checklist.options)) =>
        /\ Len(the_graph.x) = Len(df)
        /\ \A i \in 1..Len(df) :
              /\ the_graph.x[i] = df[i].Source
              /\ the_graph.measure[i] = df[i].Measure
              /\ the_graph.y[i] = df[i].Contribution
C4_Witness ==
    /\ outcome = "ok"
    /\ selected_sources = JsonList(checklist.options)
    /\ Len(df) >= 2
    /\ df[1].Source # df[2].Source
    /\ Len(the_graph.x) = Len(df)

\* C5: an invocation with the same argument as any earlier invocation ends
\* the same way and returns the same chart, whatever was processed before
\* or between the two.
C5_SameSelectionSameChart ==
    (earlier.called /\ outcome # "none"
        /\ earlier.selected_sources = selected_sources) =>
        /\ earlier.outcome = outcome
        /\ earlier.figure = Returned
C5_Witness ==
    /\ earlier.called
    /\ outcome = "ok"
    /\ earlier.selected_sources = selected_sources
    /\ Len(the_graph.x) >= 1
    /\ Len(the_graph.x) < Len(df)

\* C6: once loaded, df is the table read from the file, row for row, after
\* any number of update_graph invocations.
C6_DatasetImmutable ==
    pc \notin {"import", "failed"} => df = DataFrame(rf_data_csv.rows)
C6_Witness ==
    /\ earlier.called
    /\ outcome = "ok"
    /\ Len(filtered_df) < Len(df)
    /\ earlier.selected_sources # selected_sources

\* C7: when rf_data.csv is missing or unparsable, startup stops at the
\* load: the layout is never defined, the callback never registered, the
\* server never run.
C7_LoadFailureIsFatal ==
    rf_data_csv.state # "ok" =>
        /\ pc \in {"import", "failed"}
        /\ ~layout_defined
        /\ ~callback_registered
        /\ ~server_running
        /\ outcome = "none"
C7_Witness ==
    /\ rf_data_csv.state = "missing"
    /\ pc = "failed"

\* C8: for the default selection, the checklist's initial value, the chart
\* has exactly one bar per row of df whose Source is one of the five default
\* labels, and every bar is such a row's.
C8_DefaultSelection ==
    (outcome = "ok" /\ selected_sources = JsonList(checklist.value)) =>
        /\ checklist.value = DefaultSelection
        /\ Len(the_graph.x) = Cardinality(Matching(Range(DefaultSelection)))
        /\ \A i \in 1..Len(the_graph.x) : the_graph.x[i] \in Range(DefaultSelection)
C8_Witness ==
    /\ outcome = "ok"
    /\ selected_sources = JsonList(DefaultSelection)
    /\ Len(the_graph.x) = 1
    /\ Len(df) = 2

\* C9 (as claimed): Source values are unique per row, so the checklist has
\* one option per row of df and each selected label is one bar.
C9_SourceUniquePerRow ==
    layout_defined =>
        /\ Len(checklist.options) = Len(df)
        /\ \A i, j \in 1..Len(df) : df[i].Source = df[j].Source => i = j
        /\ outcome = "ok" =>
              \A l \in Effective(selected_sources.items) :
                  Cardinality({i \in 1..Len(the_graph.x) : the_graph.x[i] = l}) = 1

\* C9 (amended): the checklist has exactly one option per distinct Source
\* value of df (the options are the Source values of df, none repeated);
\* the number of options equals the number of rows exactly when no two rows
\* share a Source; and each selected label has as many bars as df has rows
\* with that Source, so a selected label that exactly one row carries has
\* exactly one bar.
C9_OptionPerDistinctSource ==
    layout_defined =>
        /\ Range(checklist.options) = Range(ColSource(df))
        /\ \A i, j \in 1..Len(checklist.options) :
              checklist.options[i] = checklist.options[j] => i = j
        /\ (Len(checklist.options) = Len(df)) <=>
              (\A i, j \in 1..Len(df) : df[i].Source = df[j].Source => i = j)
        /\ outcome = "ok" =>
              \A l \in Range(selected_sources.items) :
                  /\ Cardinality({i \in 1..Len(the_graph.x) : the_graph.x[i] = l})
                        = Cardinality(Matching({l}))
                  /\ Cardinality(Matching({l})) = 1 =>
                        Cardinality({i \in 1..Len(the_graph.x) : the_graph.x[i] = l}) = 1
C9_Witness ==
    /\ outcome = "ok"
    /\ Len(df) = 2
    /\ df[1].Source = df[2].Source
    /\ Len(checklist.options) = 1
    /\ Len(the_graph.x) = 2

\* C10: every list argument returns normally, and two list arguments that
\* hold the same set of labels occurring in df (in any order, with repeats,
\* with labels of no row) return the same chart.
C10_OnlyEffectiveSetMatters ==
    /\ (outcome # "none" /\ selected_sources.kind = "list") => outcome = "ok"
    /\ (earlier.called /\ earlier.selected_sources.kind = "list"
          /\ outcome # "none" /\ selected_sources.kind = "list"
          /\ Effective(earlier.selected_sources.items)
                = Effective(selected_sources.items)) =>
          earlier.figure = Returned
C10_Witness ==
    /\ earlier.called /\ earlier.outcome = "ok"
    /\ outcome = "ok"
    /\ earlier.selected_sources.items # selected_sources.items
    /\ Len(earlier.selected_sources.items) = Len(selected_sources.items)
    /\ Effective(earlier.selected_sources.items) = Effective(selected_sources.items)
    /\ Len(the_graph.x) = 2
    /\ the_graph.x[1] # the_graph.x[2]

====
